---- MODULE Spec2Model ----
(***************************************************************************)
(* Model of the wandb -> Kinesis pipeline of KaitoBittensorBff:            *)
(*   src/db/wandb_fetch.py  put_records_to_kinesis, extract_miner_id,      *)
(*                          fetch_run_data, send_to_kinesis, __main__      *)
(*   src/wandb_fetch.py     fetch_run_data (the variant without the        *)
(*                          field gate)                                    *)
(*                                                                         *)
(* Five specifications share the definitions below:                        *)
(*   SpecPub    one top-level call of put_records_to_kinesis               *)
(*   SpecRow    the scan of one history row (the inner for loop)           *)
(*   SpecFetch  one call of fetch_run_data on a whole history              *)
(*   Spec       the __main__ block: pool, as_completed loop, publishing    *)
(*   SpecPool   the worker pool alone, with more run ids than workers      *)
(***************************************************************************)
EXTENDS Integers, Sequences, FiniteSets, TLC

VARIABLES
    \* ---- put_records_to_kinesis -------------------------------------
    records_to_kinesis, \* argument of the current (innermost) call
    retry_times,        \* argument of the current (innermost) call
    pubpc,              \* "idle" | "send" | "returned" | "raised"
    batch0,             \* records_to_kinesis of the top-level call
    max_retries,        \* retry_times of the top-level call
    requests,           \* log: the Records of every put_records request
    responses,          \* log: what the sink answered to each request
    \* ---- the scan of one history row (inner loop of fetch_run_data) --
    row,                \* the part of the row dict iterated so far
    filtered_row,       \* the record under construction
    rowpc,              \* "idle" | "scan" | "appended" | "dropped"
    \* ---- one call of fetch_run_data ---------------------------------
    history,            \* what run.scan_history() streams, in order
    start_time,         \* the cutoff argument, or None
    fetched,            \* result of src/db/wandb_fetch.py, or Pending
    fetched_plain,      \* result of src/wandb_fetch.py, or Pending
    \* ---- __main__ of src/db/wandb_fetch.py --------------------------
    mainpc,             \* "idle" | "submit" | "as_completed" | "next" |
                        \* "publish" | "done" | "crashed"
    task,               \* per run: "unsubmitted" | "queued" | "running" |
                        \* "finished"
    outcome,            \* per run: Pending, FetchError or the result
    finished_early,     \* futures found finished when as_completed starts
    finished_futures,   \* the waiter's list, in completion order
    yielded,            \* futures as_completed has yielded
    cur,                \* run of the future being handled (0: none)
    last_done,          \* run whose fetch completed most recently (0: none)
    handed,             \* log: batches passed to put_records_to_kinesis
    printed             \* log: error reports and the final report

pubvars == <<records_to_kinesis, retry_times, pubpc, batch0, max_retries,
             requests, responses>>

rowvars == <<row, filtered_row, rowpc>>

fetchvars == <<history, start_time, fetched, fetched_plain>>

mainvars == <<mainpc, task, outcome, finished_early, finished_futures,
              yielded, cur, last_done, handed, printed>>

vars == <<pubvars, rowvars, fetchvars, mainvars>>

-----------------------------------------------------------------------------
(* Bounds *)
MaxBatch == 3       \* longest batch handed to a top-level publish call
MaxRetries == 2     \* largest retry_times of a top-level publish call
MaxKeys == 4        \* most keys in the row of SpecRow
MaxRows == 3        \* longest history of general rows
MaxSplit == 4       \* longest history of one-family rows
MaxTs == 3          \* timestamps are 1..MaxTs
MaxRuns == 3        \* number of run ids __main__ dispatches
MaxPoolRuns == 6    \* number of run ids dispatched in SpecPool

(* Python's None, for values that are numbers otherwise *)
None == -1

-----------------------------------------------------------------------------
(* The streaming sink (boto3 kinesis client, an external collaborator)     *)

NoErrorCode == "NoErrorCode"

\* kinesis_client.put_records raised: no response object
TransportFailure == [kind |-> "exception"]

\* A PutRecords response that rejects exactly the positions in S
PutRecordsOutput(n, S) ==
    [kind |-> "response",
     FailedRecordCount |-> Cardinality(S),
     Records |-> [i \in 1..n |->
                    IF i \in S
                    THEN [ErrorCode |-> "ProvisionedThroughputExceededException"]
                    ELSE [ErrorCode |-> NoErrorCode]]]

-----------------------------------------------------------------------------
(* put_records_to_kinesis, src/db/wandb_fetch.py:11-56                     *)

\* faulty variant: the test of line 32 is inverted
RECURSIVE collect_failed_inverted(_, _, _, _)
collect_failed_inverted(records, resrecords, idx, failed) ==
    IF idx > Len(resrecords) THEN failed
    ELSE IF resrecords[idx].ErrorCode # NoErrorCode
         THEN collect_failed_inverted(records, resrecords, idx + 1, failed)
         ELSE collect_failed_inverted(records, resrecords, idx + 1,
                                      Append(failed, records[idx]))

\* lines 30-36: for idx, res in enumerate(response["Records"]), from idx on
RECURSIVE collect_failed(_, _, _, _)
collect_failed(records, resrecords, idx, failed) ==
    IF idx > Len(resrecords) THEN failed
    ELSE IF resrecords[idx].ErrorCode = NoErrorCode
         THEN collect_failed(records, resrecords, idx + 1, failed)
         ELSE collect_failed(records, resrecords, idx + 1,
                             Append(failed, records[idx]))

\* faulty variant: any rejection makes the whole batch the retry batch
failed_records_whole_batch(records, response) ==
    IF response.kind = "exception" THEN records
    ELSE IF response.FailedRecordCount > 0 THEN records ELSE <<>>

\* lines 12-36: failed_records once the request has been answered
failed_records_of(records, response) ==
    LET after_try == IF response.kind = "exception" THEN records ELSE <<>>
    IN  IF after_try = <<>> /\ response.kind = "response"
           /\ response.FailedRecordCount > 0
        THEN collect_failed(records, response.Records, 1, after_try)
        ELSE after_try

\* faulty variant: off by one: a retry is still made when retry_times is 0
retry_decision_one_more(failed, retries) ==
    IF failed # <<>>
    THEN IF retries >= 0 THEN "retry" ELSE "raise"
    ELSE "return"

\* faulty variant: the retry is not guarded by `if failed_records`
retry_decision_unguarded(failed, retries) ==
    IF retries > 0 THEN "retry"
    ELSE IF failed # <<>> THEN "raise" ELSE "return"

\* faulty variant: exhausted retries end the call without an error
retry_decision_silent(failed, retries) ==
    IF failed # <<>> /\ retries > 0 THEN "retry" ELSE "return"

\* lines 41-56: what the call does with failed_records
retry_decision(failed, retries) ==
    IF failed # <<>>
    THEN IF retries > 0 THEN "retry" ELSE "raise"
    ELSE "return"

\* faulty variant: the recursive call is given retry_times, not
\* retry_times - 1
put_records_to_kinesis_no_decrement(response) ==
    LET failed == failed_records_of(records_to_kinesis, response)
        what   == retry_decision(failed, retry_times)
    IN  /\ pubpc' = CASE what = "retry"  -> "send"
                      [] what = "raise"  -> "raised"
                      [] what = "return" -> "returned"
        /\ records_to_kinesis' =
               IF what = "retry" THEN failed ELSE records_to_kinesis
        /\ retry_times' = retry_times

\* One call of put_records_to_kinesis answered by `response`: the request,
\* the bookkeeping of failed records, then the recursive call (after the
\* one-second sleep), the RuntimeError or the return.
put_records_to_kinesis(response) ==
    LET failed == failed_records_of(records_to_kinesis, response)
        what   == retry_decision(failed, retry_times)
    IN  /\ pubpc' = CASE what = "retry"  -> "send"
                      [] what = "raise"  -> "raised"
                      [] what = "return" -> "returned"
        /\ records_to_kinesis' =
               IF what = "retry" THEN failed ELSE records_to_kinesis
        /\ retry_times' =
               IF what = "retry" THEN retry_times - 1 ELSE retry_times

-----------------------------------------------------------------------------
(* History rows of the tracking service (wandb, an external collaborator)  *)

\* A key is the string prefix \o tail; the four prefixes of lines 99-108
\* contain no "."
ScoresPrefix == "TextEmbeddingSynapse_raw_scores"
LossesPrefix == "TextEmbeddingSynapse_losses"
Top1Prefix == "TextEmbeddingSynapse_top1_recalls"
Top3Prefix == "TextEmbeddingSynapse_top3_recalls"
FamilyPrefixes == {ScoresPrefix, LossesPrefix, Top1Prefix, Top3Prefix}
Fields == {"score", "loss", "top1_recall", "top3_recall"}

Digits == {"0", "1", "2", "3", "4", "5", "6", "7", "8", "9"}
DigitValue(c) ==
    CASE c = "0" -> 0 [] c = "1" -> 1 [] c = "2" -> 2 [] c = "3" -> 3
      [] c = "4" -> 4 [] c = "5" -> 5 [] c = "6" -> 6 [] c = "7" -> 7
      [] c = "8" -> 8 [] c = "9" -> 9

Key(prefix, tail) == [prefix |-> prefix, tail |-> tail]

\* key.startswith(prefix), for the prefixes the code tests
startswith(key, prefix) == key.prefix = prefix

\* int(digits)
RECURSIVE int_of(_, _)
int_of(digits, acc) ==
    IF digits = <<>> THEN acc
    ELSE int_of(Tail(digits), 10 * acc + DigitValue(Head(digits)))

\* extract_miner_id, lines 59-67: re.search(r'\.(\d+)$', key)
extract_miner_id(key) ==
    LET t == key.tail
        dots == {i \in DOMAIN t : t[i] = "."}
        matches == {i \in dots : /\ i < Len(t)
                                 /\ \A j \in (i + 1)..Len(t) : t[j] \in Digits}
    IN  IF matches = {} THEN None
        ELSE LET i == CHOOSE m \in matches : TRUE
             IN  int_of(SubSeq(t, i + 1, Len(t)), 0)

-----------------------------------------------------------------------------
(* fetch_run_data, src/db/wandb_fetch.py:70-119                            *)

\* lines 87-95
new_filtered_row(run_id, timestamp) ==
    [run_name |-> run_id, miner_id |-> None, timestamp |-> timestamp,
     score |-> None, loss |-> None, top1_recall |-> None,
     top3_recall |-> None]

\* lines 98-110: the body of `for key, value in row.items()`
scan_key(fr, key, value) ==
    IF startswith(key, ScoresPrefix) /\ value # None
    THEN [fr EXCEPT !.score = value, !.miner_id = extract_miner_id(key)]
    ELSE IF startswith(key, LossesPrefix) /\ value # None
    THEN [fr EXCEPT !.loss = value, !.miner_id = extract_miner_id(key)]
    ELSE IF startswith(key, Top1Prefix) /\ value # None
    THEN [fr EXCEPT !.top1_recall = value, !.miner_id = extract_miner_id(key)]
    ELSE IF startswith(key, Top3Prefix) /\ value # None
    THEN [fr EXCEPT !.top3_recall = value, !.miner_id = extract_miner_id(key)]
    ELSE fr

\* faulty variant: the gate forgets top3_recall
all_populated_but_top3(fr) ==
    \A field \in {"score", "loss", "top1_recall"} : fr[field] # None

\* faulty variant: any(...) instead of all(...)
any_populated(fr) ==
    \E field \in Fields : fr[field] # None

\* line 113: all(filtered_row[field] is not None for field in [...])
all_populated(fr) ==
    \A field \in Fields : fr[field] # None

\* A row is a dict, here the sequence of its items in iteration order
Item(key, value) == [key |-> key, value |-> value]
TimestampKey == Key("_timestamp", <<>>)

\* row.get('_timestamp', None)
get_timestamp(r) ==
    LET at == {i \in DOMAIN r : r[i].key = TimestampKey}
    IN  IF at = {} THEN None ELSE r[CHOOSE i \in at : TRUE].value

\* lines 98-110: the whole `for key, value in row.items()` loop
RECURSIVE scan_row(_, _)
scan_row(fr, items) ==
    IF items = <<>> THEN fr
    ELSE scan_row(scan_key(fr, Head(items).key, Head(items).value),
                  Tail(items))

\* faulty variant: the cutoff excludes the row whose timestamp equals it
before_cutoff_inclusive(timestamp, cutoff) ==
    cutoff # None /\ timestamp <= cutoff

\* line 83 (and src/wandb_fetch.py:20)
before_cutoff(timestamp, cutoff) ==
    cutoff # None /\ timestamp < cutoff

\* faulty variant: a row older than the cutoff is skipped (continue), the
\* scan goes on
RECURSIVE scan_history_no_break(_, _, _, _, _)
scan_history_no_break(run_id, rows, cutoff, i, history_data) ==
    IF i > Len(rows) THEN history_data
    ELSE LET timestamp == get_timestamp(rows[i])
             fr == scan_row(new_filtered_row(run_id, timestamp), rows[i])
         IN  scan_history_no_break(run_id, rows, cutoff, i + 1,
                 IF /\ timestamp # None
                    /\ ~before_cutoff(timestamp, cutoff)
                    /\ all_populated(fr)
                 THEN Append(history_data, fr)
                 ELSE history_data)

\* lines 78-114: `for row in run.scan_history(page_size=1)`, from row i on
RECURSIVE scan_history(_, _, _, _, _)
scan_history(run_id, rows, cutoff, i, history_data) ==
    IF i > Len(rows) THEN history_data
    ELSE LET timestamp == get_timestamp(rows[i])
         IN  IF timestamp # None
             THEN IF before_cutoff(timestamp, cutoff)
                  THEN history_data
                  ELSE LET fr == scan_row(new_filtered_row(run_id, timestamp),
                                          rows[i])
                       IN  scan_history(run_id, rows, cutoff, i + 1,
                               IF all_populated(fr)
                               THEN Append(history_data, fr)
                               ELSE history_data)
             ELSE scan_history(run_id, rows, cutoff, i + 1, history_data)

\* lines 70-119: returns (metrics_dataframe, run_id)
fetch_run_data(run_id, rows, cutoff) ==
    [df |-> scan_history(run_id, rows, cutoff, 1, <<>>), run_id |-> run_id]

(* fetch_run_data, src/wandb_fetch.py:6-27: the rows themselves are kept  *)
RECURSIVE scan_history_plain(_, _, _, _)
scan_history_plain(rows, cutoff, i, history_data) ==
    IF i > Len(rows) THEN history_data
    ELSE LET timestamp == get_timestamp(rows[i])
         IN  IF timestamp # None
             THEN IF before_cutoff(timestamp, cutoff)
                  THEN history_data
                  ELSE scan_history_plain(rows, cutoff, i + 1,
                                          Append(history_data, rows[i]))
             ELSE scan_history_plain(rows, cutoff, i + 1, history_data)

fetch_run_data_plain(run_id, rows, cutoff) ==
    [df |-> scan_history_plain(rows, cutoff, 1, <<>>), run_id |-> run_id]

Pending == [pending |-> TRUE]

-----------------------------------------------------------------------------
(* SpecPub: one top-level publish call, any batch, any retry budget        *)

DataPool == {"a", "b"}

\* A publish record: `id` is the identity of the Python dict object
Batches ==
    UNION {{[i \in 1..n |-> [id |-> i, Data |-> d[i]]] : d \in [1..n -> DataPool]}
           : n \in 0..MaxBatch}

\* the parts of the state a specification does not use
IdlePub ==
    /\ records_to_kinesis = <<>>
    /\ retry_times = 0
    /\ pubpc = "idle"
    /\ batch0 = <<>>
    /\ max_retries = 0
    /\ requests = <<>>
    /\ responses = <<>>

IdleRow ==
    /\ row = [k \in {} |-> None]
    /\ filtered_row = new_filtered_row(1, 1)
    /\ rowpc = "idle"

IdleFetch ==
    /\ history = <<>>
    /\ start_time = None
    /\ fetched = Pending
    /\ fetched_plain = Pending

IdleMain ==
    /\ mainpc = "idle"
    /\ task = <<>>
    /\ outcome = <<>>
    /\ finished_early = {}
    /\ finished_futures = <<>>
    /\ yielded = {}
    /\ cur = 0
    /\ handed = <<>>
    /\ printed = <<>>
    /\ last_done = 0

InitPub ==
    /\ IdleRow
    /\ IdleFetch
    /\ IdleMain
    /\ records_to_kinesis \in Batches
    /\ retry_times \in 0..MaxRetries
    /\ pubpc = "send"
    /\ batch0 = records_to_kinesis
    /\ max_retries = retry_times
    /\ requests = <<>>
    /\ responses = <<>>

\* the sink reports a transport failure
PubTransportFailure ==
    /\ pubpc = "send"
    /\ put_records_to_kinesis(TransportFailure)
    /\ requests' = Append(requests, records_to_kinesis)
    /\ responses' = Append(responses, TransportFailure)
    /\ UNCHANGED <<batch0, max_retries, rowvars, fetchvars, mainvars>>

\* the sink answers, rejecting the positions S (possibly none, possibly all)
PubAnswered ==
    /\ pubpc = "send"
    /\ \E S \in SUBSET (1..Len(records_to_kinesis)) :
         LET response == PutRecordsOutput(Len(records_to_kinesis), S)
         IN  /\ put_records_to_kinesis(response)
             /\ responses' = Append(responses, response)
    /\ requests' = Append(requests, records_to_kinesis)
    /\ UNCHANGED <<batch0, max_retries, rowvars, fetchvars, mainvars>>

NextPub == PubTransportFailure \/ PubAnswered

SpecPub == InitPub /\ [][NextPub]_vars

-----------------------------------------------------------------------------
(* Properties of the publisher, over the log of requests and answers       *)

\* positions the sink rejected in an answer (none if the request failed)
Rejected(response) ==
    IF response.kind = "response"
    THEN {i \in DOMAIN response.Records :
             response.Records[i].ErrorCode # NoErrorCode}
    ELSE {}

\* the elements of seq at the positions S, in increasing position order
AtPositions(seq, S) ==
    [k \in 1..Cardinality(S) |->
        seq[CHOOSE i \in S : Cardinality({j \in S : j <= i}) = k]]

Rounds == 1..Len(responses)

PartialFailure(n) ==
    responses[n].kind = "response" /\ Rejected(responses[n]) # {}

TotalFailure(n) ==
    \/ responses[n].kind = "exception"
    \/ /\ responses[n].kind = "response"
       /\ requests[n] # <<>>
       /\ Rejected(responses[n]) = DOMAIN requests[n]

TotalSuccess(n) ==
    responses[n].kind = "response" /\ Rejected(responses[n]) = {}

\* identities of the records the sink has reported accepted in some round
AcceptedIds ==
    UNION {{requests[n][i].id :
               i \in {j \in DOMAIN requests[n] :
                         responses[n].Records[j].ErrorCode = NoErrorCode}}
           : n \in {m \in Rounds : responses[m].kind = "response"}}

UnacceptedIds == {batch0[i].id : i \in DOMAIN batch0} \ AcceptedIds

\* C1: after an answer that rejects the non-empty position set S of the
\* submitted batch, the next request (sent, or about to be sent) carries
\* exactly the records at the positions S, in their original order.
C1_PartialFailurePrecision ==
    \A n \in Rounds :
        PartialFailure(n) =>
            LET expected == AtPositions(requests[n], Rejected(responses[n]))
            IN  /\ n < Len(requests) => requests[n + 1] = expected
                /\ (n = Len(requests) /\ pubpc = "send")
                       => records_to_kinesis = expected

C1_Witness ==
    \E n \in Rounds :
        /\ Len(requests[n]) = 3
        /\ Rejected(responses[n]) = {1, 3}
        /\ requests[n][1].Data = requests[n][2].Data
        /\ n < Len(requests)
        /\ Len(requests[n + 1]) = 2

\* C2: a non-empty batch and a sink that fails every request totally: every
\* request carries the entire batch, there are never more than
\* max_retries + 1 of them, the call does not return, and it has raised
\* exactly when max_retries + 1 requests have been made.
C2_RetryBoundTotalFailure ==
    (batch0 # <<>> /\ \A n \in Rounds : TotalFailure(n)) =>
        /\ Len(requests) <= max_retries + 1
        /\ \A n \in Rounds : requests[n] = batch0
        /\ pubpc # "returned"
        /\ (pubpc = "raised") <=> (Len(requests) = max_retries + 1)
        /\ pubpc = "send" => retry_times = max_retries - Len(requests)

C2_Witness ==
    /\ pubpc = "raised"
    /\ max_retries = MaxRetries
    /\ Len(batch0) >= 2
    /\ Len(requests) = max_retries + 1
    /\ \A n \in Rounds : TotalFailure(n)
    /\ \E n \in Rounds : responses[n].kind = "exception"
    /\ \E n \in Rounds : responses[n].kind = "response"

\* C3: a round the sink answers with total success is the last request of
\* the call, it is one of the rounds 0..max_retries, and the call has
\* returned without an error.
C3_StopOnSuccess ==
    \A n \in Rounds :
        TotalSuccess(n) =>
            /\ n = Len(requests)
            /\ n - 1 <= max_retries
            /\ pubpc = "returned"

C3_Witness ==
    /\ pubpc = "returned"
    /\ max_retries >= 2
    /\ Len(requests) = max_retries + 1
    /\ TotalSuccess(Len(requests))
    /\ \E n \in Rounds : responses[n].kind = "exception"
    /\ \E n \in Rounds : PartialFailure(n) /\ ~TotalFailure(n)

\* C4: the call returns only if every record of the original batch was
\* reported accepted in some round; a call that has ended with a record
\* still unaccepted has raised, with the attempts counter at zero.
C4_NoSilentDrop ==
    /\ pubpc = "returned" => UnacceptedIds = {}
    /\ (pubpc # "send" /\ UnacceptedIds # {})
           => (pubpc = "raised" /\ retry_times = 0)
    /\ pubpc = "raised" => UnacceptedIds # {}

C4_Witness ==
    /\ pubpc = "raised"
    /\ retry_times = 0
    /\ max_retries >= 1
    /\ AcceptedIds # {}
    /\ UnacceptedIds # {}
    /\ \E n \in Rounds : responses[n].kind = "exception"

\* C11: a publish call on an empty batch issues no request to the sink,
\* does not raise, and ends as a success.
C11_EmptyBatchNoOp ==
    batch0 = <<>> =>
        /\ requests = <<>>
        /\ pubpc \in {"send", "returned"}

Ids(batch) == {batch[i].id : i \in DOMAIN batch}

\* C14: a record the sink reported accepted in a partially-failed round is
\* in the request of no later round of the same publish call.
C14_AcceptedNeverResent ==
    \A n \in Rounds :
        PartialFailure(n) =>
            \A i \in DOMAIN requests[n] \ Rejected(responses[n]) :
                \A m \in Rounds :
                    m > n => requests[n][i].id \notin Ids(requests[m])

C14_Witness ==
    /\ Len(requests) = 3
    /\ Len(requests[1]) = 3
    /\ Rejected(responses[1]) = {1, 3}
    /\ responses[2].kind = "exception"
    /\ Ids(requests[3]) = {1, 3}
    /\ requests[1][2].Data = requests[1][3].Data

\* C20: a publish call makes at most max_retries + 1 requests and has ended
\* once it has made that many; the attempts counter is max_retries minus
\* the number of retry rounds begun and is never negative.
C20_PublishTerminates ==
    /\ Len(requests) <= max_retries + 1
    /\ Len(requests) = max_retries + 1 => pubpc \in {"returned", "raised"}
    /\ retry_times >= 0
    /\ pubpc = "send" => retry_times = max_retries - Len(requests)
    /\ pubpc \in {"returned", "raised"}
          => retry_times = max_retries - (Len(requests) - 1)

C20_Witness ==
    /\ pubpc = "returned"
    /\ max_retries = MaxRetries
    /\ retry_times = 0
    /\ Len(requests) = max_retries + 1
    /\ \E n \in Rounds : responses[n].kind = "exception"
    /\ \E n \in Rounds : PartialFailure(n) /\ ~TotalFailure(n)

-----------------------------------------------------------------------------
(* SpecRow: the scan of one retained row, its dict iterated key by key     *)

T7 == <<".", "7">>
T8 == <<".", "8">>

\* the keys a row may carry: the four families for two miners, a scores
\* key with no trailing integer, and a key of no family
KeyPool ==
    {Key(p, t) : p \in FamilyPrefixes, t \in {T7, T8}}
        \cup {Key(ScoresPrefix, <<>>), Key("_step", <<>>)}

ValuePool == {None, 0, 1}

InitRow ==
    /\ IdlePub
    /\ IdleFetch
    /\ IdleMain
    /\ row = [k \in {} |-> None]
    /\ filtered_row = new_filtered_row(1, 1)
    /\ rowpc = "scan"

\* one iteration of `for key, value in row.items()`
RowScanKey ==
    /\ rowpc = "scan"
    /\ Cardinality(DOMAIN row) < MaxKeys
    /\ \E key \in KeyPool \ DOMAIN row, value \in ValuePool :
         /\ filtered_row' = scan_key(filtered_row, key, value)
         /\ row' = [k \in DOMAIN row \cup {key} |->
                       IF k = key THEN value ELSE row[k]]
    /\ UNCHANGED <<rowpc, pubvars, fetchvars, mainvars>>

\* the dict is exhausted: lines 113-114
RowEnd ==
    /\ rowpc = "scan"
    /\ rowpc' = IF all_populated(filtered_row) THEN "appended" ELSE "dropped"
    /\ UNCHANGED <<row, filtered_row, pubvars, fetchvars, mainvars>>

NextRow == RowScanKey \/ RowEnd

SpecRow == InitRow /\ [][NextRow]_vars

-----------------------------------------------------------------------------
(* SpecFetch: one call of fetch_run_data on a bounded history              *)

\* the values of the scenario of one miner: 0.9, 0.2, 0.5, 0.8 in tenths
ScenarioValue(prefix) ==
    CASE prefix = ScoresPrefix -> 9
      [] prefix = LossesPrefix -> 2
      [] prefix = Top1Prefix -> 5
      [] prefix = Top3Prefix -> 8

Full7 ==
    <<Item(Key(ScoresPrefix, T7), 9), Item(Key(LossesPrefix, T7), 2),
      Item(Key(Top1Prefix, T7), 5), Item(Key(Top3Prefix, T7), 8)>>

Mixed78 ==
    <<Item(Key(ScoresPrefix, T7), 9), Item(Key(LossesPrefix, T7), 2),
      Item(Key(Top1Prefix, T7), 5), Item(Key(Top3Prefix, T8), 8)>>

Partial7 ==
    <<Item(Key(ScoresPrefix, T7), 9), Item(Key(LossesPrefix, T7), 2),
      Item(Key(Top1Prefix, T7), 5), Item(Key(Top3Prefix, T7), None)>>

\* the row dict with the given '_timestamp' (absent when None)
Row(ts, items) ==
    IF ts = None THEN items ELSE <<Item(TimestampKey, ts)>> \o items

GeneralRows ==
    {Row(ts, items) : ts \in {None} \cup 1..MaxTs,
                      items \in {Full7, Mixed78, Partial7}}

\* rows that carry one family of miner 7 each, all at the timestamp ts
SplitRows(ts) ==
    {Row(ts, <<Item(Key(p, T7), ScenarioValue(p))>>) : p \in FamilyPrefixes}

SeqsUpTo(S, n) == UNION {[1..k -> S] : k \in 0..n}

Histories ==
    SeqsUpTo(GeneralRows, MaxRows)
        \cup UNION {SeqsUpTo(SplitRows(ts), MaxSplit) : ts \in 1..MaxTs}

InitFetch ==
    /\ IdlePub
    /\ IdleRow
    /\ IdleMain
    /\ history \in Histories
    /\ start_time \in {None} \cup 1..MaxTs
    /\ fetched = Pending
    /\ fetched_plain = Pending

FetchRunData ==
    /\ fetched = Pending
    /\ fetched' = fetch_run_data(1, history, start_time)
    /\ UNCHANGED <<history, start_time, fetched_plain, pubvars, rowvars, mainvars>>

FetchRunDataPlain ==
    /\ fetched_plain = Pending
    /\ fetched_plain' = fetch_run_data_plain(1, history, start_time)
    /\ UNCHANGED <<history, start_time, fetched, pubvars, rowvars, mainvars>>

NextFetch == FetchRunData \/ FetchRunDataPlain

SpecFetch == InitFetch /\ [][NextFetch]_vars

-----------------------------------------------------------------------------
(* Spec: the __main__ block of src/db/wandb_fetch.py, lines 135-165        *)

max_workers == 5        \* line 150
main_retry_times == 10  \* line 133
main_start_time == 2    \* line 145, on the model's timestamp scale

\* line 144 lists the run ids; src/wandb_fetch.py:37 takes all the runs of
\* the project
run_ids == [i \in 1..MaxRuns |-> i]
Runs == 1..MaxRuns

\* what the tracking service may hold for a run
RunHistories ==
    {<<>>,
     <<Row(3, Full7), Row(1, Full7)>>,
     <<Row(3, Full7), Row(2, Mixed78)>>}

FetchError == [exception |-> "FetchError"]

\* str(hash(run_name)): deterministic within one process
str_hash(run_name) == (31 * run_name + 17) % 64

\* faulty variant: the records are built from the last row to the first
encode_reversed(df) ==
    [i \in DOMAIN df |->
        [id |-> i,
         Data |-> <<df[Len(df) + 1 - i], "\n">>,
         PartitionKey |-> str_hash(df[Len(df) + 1 - i].run_name)]]

\* lines 123-130 of send_to_kinesis: one record per dataframe row, in order
encode(df) ==
    [i \in DOMAIN df |->
        [id |-> i,
         Data |-> <<df[i], "\n">>,
         PartitionKey |-> str_hash(df[i].run_name)]]

\* faulty variant: no handler around the loop body
except_clause_absent(exc) == "propagate"

\* lines 162-163: `except Exception as e` takes every error of the body
except_clause(exc) == "caught"

ErrorReport(exc, run) == [what |-> "Error fetching data for run", exc |-> exc,
                          run |-> run]
SuccessReport == [what |-> "Data has been successfully sent to Kinesis.",
                  exc |-> "none", run |-> 0]

Init ==
    /\ IdleRow
    /\ IdleFetch
    /\ IdlePub
    /\ mainpc = "submit"
    /\ task = [r \in Runs |-> "unsubmitted"]
    /\ outcome = [r \in Runs |-> Pending]
    /\ finished_early = {}
    /\ finished_futures = <<>>
    /\ yielded = {}
    /\ cur = 0
    /\ handed = <<>>
    /\ printed = <<>>
    /\ last_done = 0

\* line 151: executor.submit for the next run id of the list ids
SubmitNext(ids) ==
    /\ mainpc = "submit"
    /\ \E i \in DOMAIN ids :
         /\ task[ids[i]] = "unsubmitted"
         /\ \A j \in 1..(i - 1) : task[ids[j]] # "unsubmitted"
         /\ task' = [task EXCEPT ![ids[i]] = "queued"]
         /\ mainpc' = IF i = Len(ids) THEN "as_completed" ELSE "submit"
    /\ UNCHANGED <<last_done, outcome, finished_early, finished_futures,
                   yielded, cur, handed, printed, pubvars, rowvars,
                   fetchvars>>

Submit == SubmitNext(run_ids)


\* faulty variant: a queued task starts whether or not a worker is free
TaskStart_uncapped(r) ==
    /\ task[r] = "queued"
    /\ \A q \in DOMAIN task : task[q] = "queued" => r <= q
    /\ task' = [task EXCEPT ![r] = "running"]
    /\ UNCHANGED <<last_done, mainpc, outcome, finished_early,
                   finished_futures, yielded, cur, handed, printed, pubvars,
                   rowvars, fetchvars>>

\* a pool worker takes the oldest queued task; at most max_workers run
TaskStart(r) ==
    /\ task[r] = "queued"
    /\ \A q \in DOMAIN task : task[q] = "queued" => r <= q
    /\ Cardinality({q \in DOMAIN task : task[q] = "running"}) < max_workers
    /\ task' = [task EXCEPT ![r] = "running"]
    /\ UNCHANGED <<last_done, mainpc, outcome, finished_early,
                   finished_futures, yielded, cur, handed, printed, pubvars,
                   rowvars, fetchvars>>

\* faulty variant: the waiter's list is kept newest first
Complete_newest_first(r, res) ==
    /\ task[r] = "running"
    /\ task' = [task EXCEPT ![r] = "finished"]
    /\ outcome' = [outcome EXCEPT ![r] = res]
    /\ last_done' = r
    /\ finished_futures' =
           IF mainpc \in {"next", "publish"}
           THEN <<r>> \o finished_futures ELSE finished_futures
    /\ UNCHANGED <<mainpc, finished_early, yielded, cur, handed, printed,
                   pubvars, rowvars, fetchvars>>

\* the future of run r completes with res; a waiter installed by
\* as_completed is told, in completion order
Complete(r, res) ==
    /\ task[r] = "running"
    /\ task' = [task EXCEPT ![r] = "finished"]
    /\ outcome' = [outcome EXCEPT ![r] = res]
    /\ last_done' = r
    /\ finished_futures' =
           IF mainpc \in {"next", "publish"}
           THEN Append(finished_futures, r) ELSE finished_futures
    /\ UNCHANGED <<mainpc, finished_early, yielded, cur, handed, printed,
                   pubvars, rowvars, fetchvars>>

\* fetch_run_data of run r returns
TaskReturns(r) ==
    \E h \in RunHistories : Complete(r, fetch_run_data(r, h, main_start_time))

\* fetch_run_data of run r raises (api.run or scan_history fails)
TaskRaises(r) == Complete(r, FetchError)

\* line 153: as_completed(futures) starts: the futures already finished are
\* set aside (a set, yielded in no particular order)
AsCompletedStart ==
    /\ mainpc = "as_completed"
    /\ finished_early' = {r \in Runs : task[r] = "finished"}
    /\ mainpc' = "next"
    /\ UNCHANGED <<last_done, task, outcome, finished_futures, yielded, cur,
                   handed, printed, pubvars, rowvars, fetchvars>>

\* the future as_completed yields next: any of those set aside, then the
\* waiter's list in completion order
NextYield(r) ==
    IF finished_early # {} THEN r \in finished_early
    ELSE finished_futures # <<>> /\ r = Head(finished_futures)

AfterYield(r) ==
    /\ finished_early' = finished_early \ {r}
    /\ finished_futures' =
           IF finished_early = {} THEN Tail(finished_futures)
           ELSE finished_futures
    /\ yielded' = yielded \cup {r}

\* faulty variant: a result is taken while a publish call is active
HandleResult_while_publishing ==
    /\ mainpc \in {"next", "publish"}
    /\ \E r \in Runs :
         /\ NextYield(r)
         /\ outcome[r] # FetchError
         /\ AfterYield(r)
         /\ cur' = outcome[r].run_id
         /\ handed' = Append(handed, [run |-> outcome[r].run_id,
                                      records |-> encode(outcome[r].df)])
         /\ records_to_kinesis' = encode(outcome[r].df)
         /\ batch0' = encode(outcome[r].df)
    /\ retry_times' = main_retry_times
    /\ max_retries' = main_retry_times
    /\ pubpc' = "send"
    /\ mainpc' = "publish"
    /\ UNCHANGED <<last_done, task, outcome, printed, requests, responses,
                   rowvars, fetchvars>>

\* lines 153-160: the loop body for a future whose fetch returned: print the
\* dataframe, build the records, call put_records_to_kinesis(records, .., 10)
HandleResult ==
    /\ mainpc = "next"
    /\ \E r \in Runs :
         /\ NextYield(r)
         /\ outcome[r] # FetchError
         /\ AfterYield(r)
         /\ cur' = outcome[r].run_id
         /\ handed' = Append(handed, [run |-> outcome[r].run_id,
                                      records |-> encode(outcome[r].df)])
         /\ records_to_kinesis' = encode(outcome[r].df)
         /\ batch0' = encode(outcome[r].df)
    /\ retry_times' = main_retry_times
    /\ max_retries' = main_retry_times
    /\ pubpc' = "send"
    /\ mainpc' = "publish"
    /\ UNCHANGED <<last_done, task, outcome, printed, requests, responses,
                   rowvars, fetchvars>>

\* lines 153-163: the loop body for a future whose fetch raised:
\* future.result() re-raises, the handler reports
HandleFetchError ==
    /\ mainpc = "next"
    /\ \E r \in Runs :
         /\ NextYield(r)
         /\ outcome[r] = FetchError
         /\ AfterYield(r)
         /\ IF except_clause("FetchError") = "caught"
            THEN /\ printed' = Append(printed, ErrorReport("FetchError", r))
                 /\ mainpc' = "next"
            ELSE /\ printed' = printed
                 /\ mainpc' = "crashed"
    /\ UNCHANGED <<last_done, task, outcome, cur, handed, pubvars, rowvars,
                   fetchvars>>

\* one call of put_records_to_kinesis inside send_to_kinesis
MainPutRecords ==
    /\ mainpc = "publish"
    /\ pubpc = "send"
    /\ \/ put_records_to_kinesis(TransportFailure)
       \/ \E S \in SUBSET (1..Len(records_to_kinesis)) :
            put_records_to_kinesis(
                PutRecordsOutput(Len(records_to_kinesis), S))
    /\ UNCHANGED <<batch0, max_retries, requests, responses, mainvars,
                   rowvars, fetchvars>>

\* the frames of send_to_kinesis and put_records_to_kinesis are gone
PublishEnds ==
    /\ pubpc' = "idle"
    /\ records_to_kinesis' = <<>>
    /\ retry_times' = 0
    /\ batch0' = <<>>
    /\ max_retries' = 0
    /\ cur' = 0
    /\ UNCHANGED <<requests, responses>>

\* send_to_kinesis returned: next iteration of the loop
PublishReturned ==
    /\ mainpc = "publish"
    /\ pubpc = "returned"
    /\ PublishEnds
    /\ mainpc' = "next"
    /\ UNCHANGED <<last_done, task, outcome, finished_early,
                   finished_futures, yielded, handed, printed, rowvars,
                   fetchvars>>

\* send_to_kinesis raised the RuntimeError of line 53: lines 162-163
PublishRaised ==
    /\ mainpc = "publish"
    /\ pubpc = "raised"
    /\ PublishEnds
    /\ IF except_clause("RuntimeError") = "caught"
       THEN /\ printed' = Append(printed, ErrorReport("RuntimeError", cur))
            /\ mainpc' = "next"
       ELSE /\ printed' = printed
            /\ mainpc' = "crashed"
    /\ UNCHANGED <<last_done, task, outcome, finished_early,
                   finished_futures, yielded, handed, rowvars, fetchvars>>

\* faulty variant: the loop is left after the first future
Finish_after_first ==
    /\ mainpc = "next"
    /\ yielded # {}
    /\ printed' = Append(printed, SuccessReport)
    /\ mainpc' = "done"
    /\ UNCHANGED <<last_done, task, outcome, finished_early,
                   finished_futures, yielded, cur, handed, pubvars, rowvars,
                   fetchvars>>

\* every future has been yielded: the with block ends, line 165 prints
Finish ==
    /\ mainpc = "next"
    /\ yielded = Runs
    /\ printed' = Append(printed, SuccessReport)
    /\ mainpc' = "done"
    /\ UNCHANGED <<last_done, task, outcome, finished_early,
                   finished_futures, yielded, cur, handed, pubvars, rowvars,
                   fetchvars>>

Next ==
    \/ Submit
    \/ \E r \in Runs : TaskStart(r)
    \/ \E r \in Runs : TaskReturns(r)
    \/ \E r \in Runs : TaskRaises(r)
    \/ AsCompletedStart
    \/ HandleResult
    \/ HandleFetchError
    \/ MainPutRecords
    \/ PublishReturned
    \/ PublishRaised
    \/ Finish

Spec == Init /\ [][Next]_vars

-----------------------------------------------------------------------------
(* Properties of the fetcher                                               *)

PrefixOf(field) ==
    CASE field = "score" -> ScoresPrefix
      [] field = "loss" -> LossesPrefix
      [] field = "top1_recall" -> Top1Prefix
      [] field = "top3_recall" -> Top3Prefix

\* the families for which the dict carries a non-null value
FamiliesIn(dict) ==
    {p \in FamilyPrefixes :
        \E k \in DOMAIN dict : startswith(k, p) /\ dict[k] # None}

\* the same for a row given as its item sequence
FamiliesOf(r) ==
    {p \in FamilyPrefixes :
        \E i \in DOMAIN r : startswith(r[i].key, p) /\ r[i].value # None}

\* timestamps of the rows that have one are strictly descending
Descending(h) ==
    \A i, j \in DOMAIN h :
        (i < j /\ get_timestamp(h[i]) # None /\ get_timestamp(h[j]) # None)
            => get_timestamp(h[i]) > get_timestamp(h[j])

\* positions of the rows at or after the cutoff T
AtOrAfter(h, T) ==
    {i \in DOMAIN h : get_timestamp(h[i]) # None /\ get_timestamp(h[i]) >= T}

\* C7: on a history streamed strictly descending by timestamp and a cutoff
\* T, the result is exactly the records of the fully-populated rows with
\* timestamp >= T, in stream order (for src/wandb_fetch.py: exactly the rows
\* with timestamp >= T).
C7_CutoffCorrectness ==
    (start_time # None /\ Descending(history)) =>
        /\ fetched # Pending =>
             LET keep == AtPositions(history,
                            {i \in AtOrAfter(history, start_time) :
                                FamiliesOf(history[i]) = FamilyPrefixes})
             IN  /\ Len(fetched.df) = Len(keep)
                 /\ \A k \in DOMAIN keep :
                       /\ fetched.df[k].timestamp = get_timestamp(keep[k])
                       /\ fetched.df[k].timestamp >= start_time
                       /\ \A f \in Fields :
                            \E i \in DOMAIN keep[k] :
                               /\ startswith(keep[k][i].key, PrefixOf(f))
                               /\ keep[k][i].value = fetched.df[k][f]
        /\ fetched_plain # Pending =>
             fetched_plain.df =
                 AtPositions(history, AtOrAfter(history, start_time))

C7_Witness ==
    /\ fetched # Pending
    /\ fetched_plain # Pending
    /\ start_time = 2
    /\ Len(history) = 3
    /\ Descending(history)
    /\ \A i \in DOMAIN history : FamiliesOf(history[i]) = FamilyPrefixes
    /\ get_timestamp(history[1]) = 3
    /\ get_timestamp(history[2]) = 2
    /\ get_timestamp(history[3]) = 1
    /\ Len(fetched.df) = 2
    /\ fetched.df[2].timestamp = start_time

\* C8: a row in which fewer than all four families carry a non-null value
\* yields no record; an emitted record has its four metric fields non-null.
C8_FieldCompletenessGate ==
    /\ rowpc = "appended" =>
          /\ filtered_row.score # None
          /\ filtered_row.loss # None
          /\ filtered_row.top1_recall # None
          /\ filtered_row.top3_recall # None
    /\ (rowpc \in {"appended", "dropped"}
          /\ Cardinality(FamiliesIn(row)) < 4) => rowpc = "dropped"

C8_Witness ==
    /\ rowpc = "dropped"
    /\ Cardinality(DOMAIN row) = 4
    /\ Cardinality(FamiliesIn(row)) = 3
    /\ \A k \in DOMAIN row : extract_miner_id(k) = 7
    /\ \E k \in DOMAIN row : startswith(k, Top3Prefix) /\ row[k] = None

\* C9: the four metric values of every emitted record were all observed, in
\* the row the record was built from, under keys of one miner, and that
\* miner is the record's miner_id.
C9_SameMiner ==
    fetched # Pending =>
        \A n \in DOMAIN fetched.df :
            \E i \in DOMAIN history :
                /\ get_timestamp(history[i]) = fetched.df[n].timestamp
                /\ \A f \in Fields :
                      \E j \in DOMAIN history[i] :
                         /\ startswith(history[i][j].key, PrefixOf(f))
                         /\ history[i][j].value = fetched.df[n][f]
                         /\ extract_miner_id(history[i][j].key)
                                = fetched.df[n].miner_id

\* the four families of one miner in four samples that share a timestamp
SplitScenario(h) ==
    /\ Len(h) = 4
    /\ \E ts \in 1..MaxTs : h \in [1..4 -> SplitRows(ts)]
    /\ \A i, j \in DOMAIN h : i # j => h[i] # h[j]

\* the same four values in a single sample
JoinedScenario(h) ==
    \E ts \in 1..MaxTs : h = <<Row(ts, Full7)>>

ScenarioRecord(ts) ==
    [run_name |-> 1, miner_id |-> 7, timestamp |-> ts,
     score |-> 9, loss |-> 2, top1_recall |-> 5, top3_recall |-> 8]

\* C10 (as claimed): the four one-family samples of a shared timestamp,
\* with no cutoff, yield exactly one record combining the four values.
C10_CrossSampleAssembly ==
    (fetched # Pending /\ start_time = None /\ SplitScenario(history)) =>
        fetched.df = <<ScenarioRecord(get_timestamp(history[1]))>>

\* C10 (amended): those four samples yield no record, each being dropped by
\* the gate of its own row; the record combining the four values is yielded
\* when the four families arrive in one sample.
C10_NoCrossSampleAssembly ==
    (fetched # Pending /\ start_time = None) =>
        /\ SplitScenario(history) => fetched.df = <<>>
        /\ JoinedScenario(history) =>
              fetched.df = <<ScenarioRecord(get_timestamp(history[1]))>>

C10_Witness ==
    /\ fetched # Pending
    /\ start_time = None
    /\ SplitScenario(history)
    /\ FamiliesOf(history[1]) = {ScoresPrefix}
    /\ FamiliesOf(history[2]) = {LossesPrefix}
    /\ FamiliesOf(history[3]) = {Top1Prefix}
    /\ FamiliesOf(history[4]) = {Top3Prefix}
    /\ fetched.df = <<>>

-----------------------------------------------------------------------------
(* Properties of the orchestrator                                          *)

\* the batch of run r has been passed to the publisher
Handed(r) ==
    \E i \in DOMAIN handed :
        /\ handed[i].run = r
        /\ handed[i].records = encode(outcome[r].df)

\* C5: a publish that exhausted its retries is not absorbed by the
\* orchestrator, which then ends with the overall success report.
C5_ExhaustionVisible ==
    ~ /\ mainpc = "done"
      /\ \E i \in DOMAIN printed : printed[i] = SuccessReport
      /\ \E i \in DOMAIN printed : printed[i].exc = "RuntimeError"

\* C6: once the main thread has stopped, every run whose fetch did not raise
\* has had its records handed to the publisher, whichever fetches raised and
\* in whatever order the tasks completed; every run whose fetch raised has
\* been reported.
C6_RunIsolation ==
    mainpc \in {"done", "crashed"} =>
        \A r \in Runs :
            IF outcome[r] = FetchError
            THEN \E i \in DOMAIN printed :
                    printed[i] = ErrorReport("FetchError", r)
            ELSE outcome[r] # Pending /\ Handed(r)

C6_Witness ==
    /\ mainpc = "done"
    /\ MaxRuns >= 3
    /\ outcome[2] = FetchError
    /\ outcome[1] # FetchError /\ Len(outcome[1].df) = 2
    /\ outcome[3] # FetchError /\ Len(outcome[3].df) = 1
    /\ Handed(1)
    /\ Handed(3)
    /\ \E i, j \in DOMAIN handed :
          i < j /\ handed[i].run = 3 /\ handed[j].run = 1

-----------------------------------------------------------------------------
(* Further properties of the fetcher                                       *)

\* a key of the form <Family>.<digits>
WellFormed(key) ==
    key.prefix \in FamilyPrefixes /\ extract_miner_id(key) # None

\* C17: an emitted record has no null field, miner_id included, and each of
\* its metric values is the value of a key of the form <Family>.<digits> of
\* that family; other keys contribute nothing.
C17_OnlyWellFormedKeys ==
    rowpc = "appended" =>
        /\ filtered_row.miner_id # None
        /\ \A f \in Fields :
              /\ filtered_row[f] # None
              /\ \E k \in DOMAIN row :
                    /\ WellFormed(k)
                    /\ startswith(k, PrefixOf(f))
                    /\ row[k] = filtered_row[f]

\* position of the first row with a timestamp older than the cutoff T
\* (one past the end if there is none)
FirstOlder(h, T) ==
    LET older == {i \in DOMAIN h :
                     get_timestamp(h[i]) # None /\ get_timestamp(h[i]) < T}
    IN  IF older = {} THEN Len(h) + 1
        ELSE CHOOSE i \in older : \A j \in older : i <= j

\* positions of the rows with a timestamp met before that one
MetBefore(h, T) ==
    {i \in DOMAIN h : i < FirstOlder(h, T) /\ get_timestamp(h[i]) # None}

\* C18: with a cutoff T the scan ends at the first row whose timestamp is
\* older than T: the result is built from the fully-populated rows with a
\* timestamp that come before it in the stream, and from no row after it
\* whatever its timestamp; a row without timestamp neither ends the scan nor
\* yields a record.
C18_EarlyExit ==
    start_time # None =>
        /\ fetched # Pending =>
             LET keep == AtPositions(history,
                            {i \in MetBefore(history, start_time) :
                                FamiliesOf(history[i]) = FamilyPrefixes})
             IN  fetched.df =
                    [k \in DOMAIN keep |->
                        scan_row(new_filtered_row(fetched.run_id,
                                                  get_timestamp(keep[k])),
                                 keep[k])]
        /\ fetched_plain # Pending =>
             fetched_plain.df =
                 AtPositions(history, MetBefore(history, start_time))

C18_Witness ==
    /\ fetched # Pending
    /\ fetched_plain # Pending
    /\ start_time = 2
    /\ Len(history) = 3
    /\ get_timestamp(history[1]) = 3
    /\ get_timestamp(history[2]) = 1
    /\ get_timestamp(history[3]) = 3
    /\ \A i \in DOMAIN history : FamiliesOf(history[i]) = FamilyPrefixes
    /\ Len(fetched.df) = 1
    /\ fetched_plain.df = <<history[1]>>

-----------------------------------------------------------------------------
(* Further properties of the orchestrator (Spec)                           *)

HandedCount(r) == Cardinality({i \in DOMAIN handed : handed[i].run = r})

ReportedCount(r) ==
    Cardinality({i \in DOMAIN printed :
                    printed[i] = ErrorReport("FetchError", r)})

\* C12: the orchestrator ends only when every dispatched run has been
\* processed exactly once: its fetch finished, its future was consumed, and
\* either its batch was handed to the publisher once (fetch returned) or its
\* failure was reported once (fetch raised); at no moment is a run processed
\* twice; and the loop never waits while every fetch has finished and some
\* future is neither consumed nor available to it.
C12_OverallCompletion ==
    /\ mainpc = "done" =>
           \A r \in Runs :
               /\ task[r] = "finished"
               /\ r \in yielded
               /\ HandedCount(r) + ReportedCount(r) = 1
               /\ HandedCount(r) = 1 <=> outcome[r] # FetchError
    /\ \A r \in Runs : HandedCount(r) + ReportedCount(r) <= 1
    /\ (mainpc = "next" /\ \A r \in Runs : task[r] = "finished") =>
           \/ yielded = Runs
           \/ finished_early # {}
           \/ finished_futures # <<>>

\* done after a mix: one fetch raised, the others were handed over, one of
\* them to a publish call that exhausted its retries
C12_Witness ==
    /\ mainpc = "done"
    /\ \E r \in Runs : ReportedCount(r) = 1
    /\ Cardinality({r \in Runs : HandedCount(r) = 1}) = MaxRuns - 1
    /\ \E i \in DOMAIN printed : printed[i].exc = "RuntimeError"

\* futures that have completed and that the loop has not taken yet
Waiting == {x \in Runs : task[x] = "finished" /\ x \notin yielded}

Returned(x) == outcome[x] # FetchError /\ outcome[x] # Pending

\* C15 as stated: results are handled in the order the fetches complete.
\* Instance checked: the fetch that completed most recently is not taken by
\* the loop while the batch of a fetch that completed before it still waits.
C15_CompletionOrder ==
    [][\A r \in Runs :
         (r \in yielded' /\ r \notin yielded /\ r = last_done /\ Returned(r))
             => \A x \in Waiting \ {r} : ~ Returned(x)]_vars

\* C15, amended: the futures found finished when as_completed starts are
\* taken first (in no particular order); a future that completes later is
\* taken only when those are exhausted, from the head of the waiter's list,
\* whose newest entry is always the most recent completion; so a fetch that
\* completed after as_completed started never overtakes one that completed
\* before it.
C15_CompletionOrderWhileWaiting ==
    [][/\ \A r \in Runs :
            (r \in yielded' /\ r \notin yielded /\ r \notin finished_early)
                => /\ finished_early = {}
                   /\ r = Head(finished_futures)
                   /\ r = last_done => Waiting = {r}
       /\ \A i \in DOMAIN finished_futures' :
            finished_futures'[i] = last_done'
                => i = Len(finished_futures')]_vars

\* runs 3 and 2 were handed over in that order, run 1 completed last and is
\* next in the waiter's list: the reverse of the submission order
C15_Witness ==
    /\ mainpc = "publish"
    /\ cur = 2
    /\ Len(handed) = 2
    /\ handed[1].run = 3
    /\ handed[2].run = 2
    /\ finished_early = {}
    /\ finished_futures = <<1>>
    /\ last_done = 1

\* the Metric Record built from one row of a history
RecordOf(r, rw) == scan_row(new_filtered_row(r, get_timestamp(rw)), rw)

\* batch holds some of the records of whole, in the order of whole
OrderedSubsequence(batch, whole) ==
    \A k \in DOMAIN batch :
        /\ batch[k].id \in DOMAIN whole
        /\ batch[k] = whole[batch[k].id]
        /\ k > 1 => batch[k - 1].id < batch[k].id

\* C16: the batch handed over for a run has one publish record per Metric
\* Record of the fetch, the k-th carrying the k-th Metric Record, and these
\* come from rows of the run's history at increasing positions; the batch of
\* every round of the publish call holds records of the first batch in the
\* order of the first batch.
C16_WithinRunOrder ==
    [][/\ handed' # handed =>
            LET r == handed'[Len(handed')].run
                recs == handed'[Len(handed')].records
            IN  /\ Len(recs) = Len(outcome[r].df)
                /\ \A k \in DOMAIN recs : recs[k].Data[1] = outcome[r].df[k]
                /\ \A h \in RunHistories :
                     outcome[r] = fetch_run_data(r, h, main_start_time) =>
                         \E pos \in [DOMAIN recs -> DOMAIN h] :
                             /\ \A k \in DOMAIN recs :
                                  recs[k].Data[1] = RecordOf(r, h[pos[k]])
                             /\ \A k, l \in DOMAIN recs :
                                  k < l => pos[k] < pos[l]
       /\ mainpc' = "publish" =>
            /\ batch0' = handed'[Len(handed')].records
            /\ OrderedSubsequence(records_to_kinesis', batch0')]_vars

\* a batch of two records, of the rows with timestamps 3 and 2 in that
\* order; the sink rejected the second only, which is the retry batch
C16_Witness ==
    /\ mainpc = "publish"
    /\ pubpc = "send"
    /\ Len(batch0) = 2
    /\ batch0[1].Data[1].timestamp = 3
    /\ batch0[2].Data[1].timestamp = 2
    /\ records_to_kinesis = <<batch0[2]>>

\* C19: a batch is handed to the publisher only when no publish call is
\* active, and that starts the one call; while a call is active (sending, or
\* between two rounds) the main thread is inside it and the batch it sends
\* is the last one handed over, that of the run being handled.
C19_PublishingSerialized ==
    [][/\ handed' # handed =>
            /\ pubpc = "idle"
            /\ pubpc' = "send"
            /\ handed' = Append(handed, [run |-> cur', records |-> batch0'])
       /\ pubpc' # "idle" =>
            /\ mainpc' = "publish"
            /\ handed'[Len(handed')] = [run |-> cur', records |-> batch0']]_vars

\* a publish call is between two rounds while the batch of another run,
\* whose fetch has completed, waits
C19_Witness ==
    /\ mainpc = "publish"
    /\ pubpc = "send"
    /\ retry_times < main_retry_times
    /\ \E x \in Waiting : Returned(x) /\ HandedCount(x) = 0

-----------------------------------------------------------------------------
(* SpecPool: the worker pool of line 150 with more run ids than workers    *)

pool_run_ids == [i \in 1..MaxPoolRuns |-> i]
PoolRuns == 1..MaxPoolRuns

InitPool ==
    /\ IdleRow
    /\ IdleFetch
    /\ IdlePub
    /\ mainpc = "submit"
    /\ task = [r \in PoolRuns |-> "unsubmitted"]
    /\ outcome = [r \in PoolRuns |-> Pending]
    /\ finished_early = {}
    /\ finished_futures = <<>>
    /\ yielded = {}
    /\ cur = 0
    /\ handed = <<>>
    /\ printed = <<>>
    /\ last_done = 0

PoolSubmit == SubmitNext(pool_run_ids)

NextPool ==
    \/ PoolSubmit
    \/ \E r \in PoolRuns : TaskStart(r)
    \/ \E r \in PoolRuns : TaskReturns(r)
    \/ \E r \in PoolRuns : TaskRaises(r)

SpecPool == InitPool /\ [][NextPool]_vars

-----------------------------------------------------------------------------
(* Properties of the worker pool (SpecPool)                                *)

Running == {r \in DOMAIN task : task[r] = "running"}
Queued == {r \in DOMAIN task : task[r] = "queued"}

\* C13: at most max_workers fetch tasks have started and not finished,
\* however many run ids are dispatched; and whenever fewer than max_workers
\* tasks are running (each of them possibly hung for ever) and a run is
\* queued, a queued run can start.
C13_BoundedInFlight ==
    /\ Cardinality(Running) <= max_workers
    /\ (Queued # {} /\ Cardinality(Running) < max_workers) =>
           \E q \in Queued : ENABLED TaskStart(q)

\* the first run never finishes; the other workers have finished a task and
\* taken the run submitted after max_workers others; every slot is busy
C13_Witness ==
    /\ task[1] = "running"
    /\ task[max_workers + 1] = "running"
    /\ Cardinality(Running) = max_workers
    /\ \E r \in DOMAIN task : task[r] = "finished"

====
